---- MODULE Spec2Model ----
(***************************************************************************)
(* Model of the JSON-escaped string <-> raw text converter of src/App.tsx. *)
(*                                                                         *)
(* The App component holds four pieces of React state (leftText,           *)
(* rightText, direction, error) and two passive effects:                   *)
(*   - the Left -> Right effect, dependencies [leftText, direction]        *)
(*   - the Right -> Left effect, dependencies [rightText, direction]       *)
(* Every user event (a change of one textarea, a focus of one textarea)    *)
(* sets one piece of state; React then re-renders and runs every effect    *)
(* whose dependencies changed; the effects set state again, which          *)
(* re-renders again, until nothing changes.  One action of the model is    *)
(* one user event together with the whole cascade of renders and effect    *)
(* runs it causes.                                                         *)
(*                                                                         *)
(* A text is a sequence of characters over a five-character alphabet that  *)
(* keeps one character of every class JSON.parse, JSON.stringify and       *)
(* String.prototype.trim tell apart.                                       *)
(***************************************************************************)
EXTENDS Naturals, Sequences, FiniteSets

VARIABLES leftText, rightText, direction, error, lastEvent, prev

vars == <<leftText, rightText, direction, error, lastEvent, prev>>

-----------------------------------------------------------------------------
(* Characters *)

QUOTE == "q"        \* U+0022, the double quote
BACKSLASH == "b"    \* U+005C
LETTER_N == "n"     \* an ordinary letter, also the escape letter of \n
NEWLINE == "N"      \* U+000A: a control character and a whitespace character
DIGIT_1 == "1"      \* a digit: the text 1 is a JSON number

Alphabet == {QUOTE, BACKSLASH, LETTER_N, NEWLINE, DIGIT_1}

\* What a user types into the raw side; digits decode and encode like letters.
RawAlphabet == {QUOTE, BACKSLASH, LETTER_N, NEWLINE}

\* Longest text typed into the JSON-escaped textarea, and into the raw one.
MaxEscLen == 2
MaxRawLen == 1

TextsUpTo(alphabet, n) == UNION {[1..k -> alphabet] : k \in 0..n}

-----------------------------------------------------------------------------
(* Direction (./types) and the error slot *)

LEFT_TO_RIGHT == "LEFT_TO_RIGHT"
RIGHT_TO_LEFT == "RIGHT_TO_LEFT"
Direction == {LEFT_TO_RIGHT, RIGHT_TO_LEFT}

NULL == "null"
INVALID_JSON_MESSAGE == "Invalid JSON format. Input must be a valid JSON-encoded string (e.g., wrapped in double quotes)."
NOT_A_STRING_MESSAGE == "Input is a valid JSON but not a string."

-----------------------------------------------------------------------------
(* String.prototype.trim, as used by leftText.trim() === '' *)

IsWhiteSpace(c) == c = NEWLINE

RECURSIVE TrimStart(_)
TrimStart(t) ==
    IF t # <<>> /\ IsWhiteSpace(Head(t)) THEN TrimStart(Tail(t)) ELSE t

RECURSIVE TrimEnd(_)
TrimEnd(t) ==
    IF t # <<>> /\ IsWhiteSpace(t[Len(t)])
    THEN TrimEnd(SubSeq(t, 1, Len(t) - 1))
    ELSE t

trim(t) == TrimEnd(TrimStart(t))

-----------------------------------------------------------------------------
(* JSON.stringify of a string *)

\* Faulty escaping: the backslash is copied as it is.
StringifyCharWithoutBackslash(c) ==
    IF c = QUOTE THEN <<BACKSLASH, QUOTE>>
    ELSE IF c = NEWLINE THEN <<BACKSLASH, LETTER_N>>
    ELSE <<c>>

StringifyChar(c) ==
    IF c = QUOTE THEN <<BACKSLASH, QUOTE>>
    ELSE IF c = BACKSLASH THEN <<BACKSLASH, BACKSLASH>>
    ELSE IF c = NEWLINE THEN <<BACKSLASH, LETTER_N>>
    ELSE <<c>>

RECURSIVE StringifyChars(_)
StringifyChars(s) ==
    IF s = <<>> THEN <<>> ELSE StringifyChar(Head(s)) \o StringifyChars(Tail(s))

JSONstringify(s) == <<QUOTE>> \o StringifyChars(s) \o <<QUOTE>>

-----------------------------------------------------------------------------
(* JSON.parse.  The result is a record: type "string" with the decoded     *)
(* value, type "number" for a JSON value that is not a string, or type     *)
(* "SyntaxError" when JSON.parse throws.                                   *)

SyntaxError == [type |-> "SyntaxError", value |-> <<>>]

\* Index of the first character at or after i that is not JSON whitespace.
RECURSIVE SkipWhiteSpace(_, _)
SkipWhiteSpace(t, i) ==
    IF i <= Len(t) /\ IsWhiteSpace(t[i]) THEN SkipWhiteSpace(t, i + 1) ELSE i

\* Scans the characters of a string literal from index i, just after the
\* opening quote; acc is the value decoded so far.  next is the index after
\* the closing quote.
\* Faulty scanner: the escape \n gives the letter n.
RECURSIVE ParseStringCharsNewlineAsLetter(_, _, _)
ParseStringCharsNewlineAsLetter(t, i, acc) ==
    IF i > Len(t) THEN [ok |-> FALSE, value |-> <<>>, next |-> i]
    ELSE IF t[i] = QUOTE THEN [ok |-> TRUE, value |-> acc, next |-> i + 1]
    ELSE IF t[i] = BACKSLASH THEN
        IF i + 1 > Len(t) THEN [ok |-> FALSE, value |-> <<>>, next |-> i]
        ELSE IF t[i + 1] \in {QUOTE, BACKSLASH, LETTER_N}
            THEN ParseStringCharsNewlineAsLetter(t, i + 2, Append(acc, t[i + 1]))
        ELSE [ok |-> FALSE, value |-> <<>>, next |-> i]
    ELSE IF t[i] = NEWLINE THEN [ok |-> FALSE, value |-> <<>>, next |-> i]
    ELSE ParseStringCharsNewlineAsLetter(t, i + 1, Append(acc, t[i]))

RECURSIVE ParseStringChars(_, _, _)
ParseStringChars(t, i, acc) ==
    IF i > Len(t) THEN [ok |-> FALSE, value |-> <<>>, next |-> i]
    ELSE IF t[i] = QUOTE THEN [ok |-> TRUE, value |-> acc, next |-> i + 1]
    ELSE IF t[i] = BACKSLASH THEN
        IF i + 1 > Len(t) THEN [ok |-> FALSE, value |-> <<>>, next |-> i]
        ELSE IF t[i + 1] \in {QUOTE, BACKSLASH}
            THEN ParseStringChars(t, i + 2, Append(acc, t[i + 1]))
        ELSE IF t[i + 1] = LETTER_N
            THEN ParseStringChars(t, i + 2, Append(acc, NEWLINE))
        ELSE [ok |-> FALSE, value |-> <<>>, next |-> i]
    ELSE IF t[i] = NEWLINE THEN [ok |-> FALSE, value |-> <<>>, next |-> i]
    ELSE ParseStringChars(t, i + 1, Append(acc, t[i]))

\* Index after the digits of a number that starts at i.
RECURSIVE SkipDigits(_, _)
SkipDigits(t, i) ==
    IF i <= Len(t) /\ t[i] = DIGIT_1 THEN SkipDigits(t, i + 1) ELSE i

JSONparse(t) ==
    LET i == SkipWhiteSpace(t, 1) IN
    IF i > Len(t) THEN SyntaxError
    ELSE IF t[i] = QUOTE THEN
        LET r == ParseStringChars(t, i + 1, <<>>) IN
        IF r.ok /\ SkipWhiteSpace(t, r.next) > Len(t)
        THEN [type |-> "string", value |-> r.value]
        ELSE SyntaxError
    ELSE IF t[i] = DIGIT_1 THEN
        IF SkipWhiteSpace(t, SkipDigits(t, i)) > Len(t)
        THEN [type |-> "number", value |-> <<>>]
        ELSE SyntaxError
    ELSE SyntaxError

-----------------------------------------------------------------------------
(* The try block of the Left -> Right effect: JSON.parse throws on         *)
(* malformed text, and the effect itself throws when the parsed value is   *)
(* not a string.                                                           *)

TryParse(text) ==
    LET parsed == JSONparse(text) IN
    IF parsed.type = "SyntaxError"
    THEN [threw |-> TRUE, message |-> "SyntaxError", value |-> <<>>]
    ELSE IF parsed.type = "string"
    THEN [threw |-> FALSE, message |-> NULL, value |-> parsed.value]
    ELSE [threw |-> TRUE, message |-> NOT_A_STRING_MESSAGE, value |-> <<>>]

-----------------------------------------------------------------------------
(* The two effects.  snap is the state of the render the effect closes     *)
(* over; pend is the state with the set-state calls made so far in this    *)
(* pass applied; the result is pend with this effect's calls applied.      *)

\* Faulty variants of the Left -> Right effect, each a plausible slip.
\* The catch block also clears the right text.
LeftToRightEffectClearingOnError(snap, pend) ==
    IF snap.direction # LEFT_TO_RIGHT THEN pend
    ELSE IF trim(snap.leftText) = <<>>
    THEN [pend EXCEPT !.rightText = <<>>, !.error = NULL]
    ELSE LET try == TryParse(snap.leftText) IN
         IF try.threw
         THEN [pend EXCEPT !.rightText = <<>>, !.error = INVALID_JSON_MESSAGE]
         ELSE [pend EXCEPT !.rightText = try.value, !.error = NULL]

\* The direction guard comes after the empty-input branch.
LeftToRightEffectGuardedLate(snap, pend) ==
    IF trim(snap.leftText) = <<>>
    THEN [pend EXCEPT !.rightText = <<>>, !.error = NULL]
    ELSE IF snap.direction # LEFT_TO_RIGHT THEN pend
    ELSE LET try == TryParse(snap.leftText) IN
         IF try.threw
         THEN [pend EXCEPT !.error = INVALID_JSON_MESSAGE]
         ELSE [pend EXCEPT !.rightText = try.value, !.error = NULL]

\* The empty-input branch is missing: blank text goes to JSON.parse.
LeftToRightEffectWithoutEmptyCase(snap, pend) ==
    IF snap.direction # LEFT_TO_RIGHT THEN pend
    ELSE LET try == TryParse(snap.leftText) IN
         IF try.threw
         THEN [pend EXCEPT !.error = INVALID_JSON_MESSAGE]
         ELSE [pend EXCEPT !.rightText = try.value, !.error = NULL]

\* The success branch does not clear the error.
LeftToRightEffectKeepingError(snap, pend) ==
    IF snap.direction # LEFT_TO_RIGHT THEN pend
    ELSE IF trim(snap.leftText) = <<>>
    THEN [pend EXCEPT !.rightText = <<>>, !.error = NULL]
    ELSE LET try == TryParse(snap.leftText) IN
         IF try.threw
         THEN [pend EXCEPT !.error = INVALID_JSON_MESSAGE]
         ELSE [pend EXCEPT !.rightText = try.value]

\* The catch block reports the message of the exception it caught.
LeftToRightEffectReportingThrown(snap, pend) ==
    IF snap.direction # LEFT_TO_RIGHT THEN pend
    ELSE IF trim(snap.leftText) = <<>>
    THEN [pend EXCEPT !.rightText = <<>>, !.error = NULL]
    ELSE LET try == TryParse(snap.leftText) IN
         IF try.threw
         THEN [pend EXCEPT !.error = try.message]
         ELSE [pend EXCEPT !.rightText = try.value, !.error = NULL]

LeftToRightEffect(snap, pend) ==
    IF snap.direction # LEFT_TO_RIGHT THEN pend
    ELSE IF trim(snap.leftText) = <<>>
    THEN [pend EXCEPT !.rightText = <<>>, !.error = NULL]
    ELSE LET try == TryParse(snap.leftText) IN
         IF try.threw
         THEN [pend EXCEPT !.error = INVALID_JSON_MESSAGE]
         ELSE [pend EXCEPT !.rightText = try.value, !.error = NULL]

\* Faulty variants of the Right -> Left effect.
\* The error is not cleared.
RightToLeftEffectKeepingError(snap, pend) ==
    IF snap.direction # RIGHT_TO_LEFT THEN pend
    ELSE [pend EXCEPT !.leftText = JSONstringify(snap.rightText)]

\* The right text is copied without JSON.stringify.
RightToLeftEffectUnconverted(snap, pend) ==
    IF snap.direction # RIGHT_TO_LEFT THEN pend
    ELSE [pend EXCEPT !.leftText = snap.rightText, !.error = NULL]

RightToLeftEffect(snap, pend) ==
    IF snap.direction # RIGHT_TO_LEFT THEN pend
    ELSE [pend EXCEPT !.leftText = JSONstringify(snap.rightText), !.error = NULL]

\* React compares each dependency of an effect with its value at the
\* previous render.
\* Faulty dependency lists: [leftText], [rightText] and [direction].
LeftToRightDepsWithoutDirection(old, new) == old.leftText # new.leftText

\* [leftText, rightText, direction]
LeftToRightDepsWithRightText(old, new) ==
    <<old.leftText, old.rightText, old.direction>>
        # <<new.leftText, new.rightText, new.direction>>

LeftToRightDepsChanged(old, new) ==
    <<old.leftText, old.direction>> # <<new.leftText, new.direction>>

RightToLeftDepsWithoutDirection(old, new) == old.rightText # new.rightText

RightToLeftDepsWithoutRightText(old, new) == old.direction # new.direction

\* [leftText, rightText, direction]
RightToLeftDepsWithLeftText(old, new) ==
    <<old.leftText, old.rightText, old.direction>>
        # <<new.leftText, new.rightText, new.direction>>

RightToLeftDepsChanged(old, new) ==
    <<old.rightText, old.direction>> # <<new.rightText, new.direction>>

\* One pass of effects after the render of state new, old being the state
\* of the render before it: both effects read new, their set-state calls
\* are batched.
EffectPass(old, new) ==
    LET afterLeft == IF LeftToRightDepsChanged(old, new)
                     THEN LeftToRightEffect(new, new) ELSE new
    IN IF RightToLeftDepsChanged(old, new)
       THEN RightToLeftEffect(new, afterLeft) ELSE afterLeft

\* Renders new and runs effect passes until a pass changes no state (a
\* set-state call with the current value does not re-render).
RECURSIVE Render(_, _)
Render(old, new) ==
    LET next == EffectPass(old, new) IN
    IF next = new THEN new ELSE Render(new, next)

\* The states committed by the effect passes that follow the render of new,
\* in order: one entry for each pass that changed state; the pass after the
\* last entry changed nothing.
RECURSIVE RenderLog(_, _)
RenderLog(old, new) ==
    LET next == EffectPass(old, new) IN
    IF next = new THEN <<>> ELSE <<next>> \o RenderLog(new, next)

\* A set-state call of an event handler: no render when nothing changed.
Dispatch(old, new) == IF new = old THEN old ELSE Render(old, new)

\* Faulty first render: no effect runs.
MountedWithoutEffects(initial) == initial

\* The first render: every effect runs.
Mounted(initial) ==
    LET next == RightToLeftEffect(initial, LeftToRightEffect(initial, initial)) IN
    IF next = initial THEN initial ELSE Render(initial, next)

-----------------------------------------------------------------------------
(* State *)

\* The demonstration text of useState, cut down to the alphabet: a quoted
\* string literal that holds a letter, an escaped newline, an escaped
\* backslash and an escaped quote.
INITIAL_LEFT_TEXT ==
    <<QUOTE, LETTER_N, BACKSLASH, LETTER_N, BACKSLASH, BACKSLASH, LETTER_N,
      BACKSLASH, QUOTE, QUOTE>>

state == [leftText |-> leftText, rightText |-> rightText,
          direction |-> direction, error |-> error]

Commit(s) ==
    /\ leftText' = s.leftText
    /\ rightText' = s.rightText
    /\ direction' = s.direction
    /\ error' = s.error

\* History: the event processed last (its type, the element it fired on and,
\* for a change event, e.target.value), and the direction and error it found.
Event(type, target, value) == [type |-> type, target |-> target, value |-> value]

Remember(event) ==
    /\ lastEvent' = event
    /\ prev' = [direction |-> direction, error |-> error]

\* Texts a change event of the JSON-escaped textarea can carry: every short
\* text, and the literal of every text of the raw side.
RawInputs == TextsUpTo(RawAlphabet, MaxRawLen)
EscapedInputs ==
    TextsUpTo(Alphabet, MaxEscLen) \cup {JSONstringify(r) : r \in RawInputs}

Init ==
    /\ leftText = INITIAL_LEFT_TEXT
    /\ rightText = <<>>
    /\ direction = LEFT_TO_RIGHT
    /\ error = NULL
    /\ lastEvent = Event("useState", "App", <<>>)
    /\ prev = [direction |-> LEFT_TO_RIGHT, error |-> NULL]

mounted == lastEvent.type # "useState"

\* The effects of the first render.
Mount ==
    /\ ~mounted
    /\ Commit(Mounted(state))
    /\ Remember(Event("mount", "App", <<>>))

\* onChange of json-input.  The textarea is controlled (value={leftText}),
\* so a change event carries a text other than the one rendered.
OnLeftChange(t) ==
    /\ mounted
    /\ t # leftText
    /\ Commit(Dispatch(state, [state EXCEPT !.leftText = t]))
    /\ Remember(Event("change", "json-input", t))

\* onChange of markdown-output.
OnRightChange(t) ==
    /\ mounted
    /\ t # rightText
    /\ Commit(Dispatch(state, [state EXCEPT !.rightText = t]))
    /\ Remember(Event("change", "markdown-output", t))

\* Faulty handler: the left focus sets the direction of the right focus.
handleLeftFocusWrongWay ==
    /\ mounted
    /\ Commit(Dispatch(state, [state EXCEPT !.direction = RIGHT_TO_LEFT]))
    /\ Remember(Event("focus", "json-input", <<>>))

handleLeftFocus ==
    /\ mounted
    /\ Commit(Dispatch(state, [state EXCEPT !.direction = LEFT_TO_RIGHT]))
    /\ Remember(Event("focus", "json-input", <<>>))

handleRightFocus ==
    /\ mounted
    /\ Commit(Dispatch(state, [state EXCEPT !.direction = RIGHT_TO_LEFT]))
    /\ Remember(Event("focus", "markdown-output", <<>>))

Next ==
    \/ Mount
    \/ \E t \in EscapedInputs : OnLeftChange(t)
    \/ \E t \in RawInputs : OnRightChange(t)
    \/ handleLeftFocus
    \/ handleRightFocus

Spec == Init /\ [][Next]_vars

-----------------------------------------------------------------------------
(* The codec on its own: JSON.stringify of a string, then JSON.parse of    *)
(* the result with the string test of the Left -> Right effect.  The       *)
(* string is held in rightText, its literal in leftText; lastEvent keeps   *)
(* the string the run started from.                                        *)

\* Longest string the codec is applied to.
MaxCodecLen == 3

CodecInputs == TextsUpTo(Alphabet, MaxCodecLen)

CodecInit ==
    /\ rightText \in CodecInputs
    /\ leftText = <<>>
    /\ direction = RIGHT_TO_LEFT
    /\ error = NULL
    /\ lastEvent = Event("input", "codec", rightText)
    /\ prev = [direction |-> RIGHT_TO_LEFT, error |-> NULL]

\* const stringified = JSON.stringify(rightText)
CodecStringify ==
    /\ lastEvent.type = "input"
    /\ leftText' = JSONstringify(rightText)
    /\ rightText' = <<>>
    /\ lastEvent' = Event("stringify", "codec", lastEvent.value)
    /\ UNCHANGED <<direction, error, prev>>

\* const parsed = JSON.parse(leftText); typeof parsed === 'string'
CodecParse ==
    /\ lastEvent.type = "stringify"
    /\ LET try == TryParse(leftText) IN
         /\ rightText' = try.value
         /\ error' = IF try.threw THEN INVALID_JSON_MESSAGE ELSE NULL
    /\ lastEvent' = Event("parse", "codec", lastEvent.value)
    /\ UNCHANGED <<leftText, direction, prev>>

CodecNext == CodecStringify \/ CodecParse

CodecSpec == CodecInit /\ [][CodecNext]_vars

-----------------------------------------------------------------------------
(* Vocabulary of the properties.  The spec's names: escaped is leftText,   *)
(* raw is rightText, decode is JSON.parse restricted to strings, encode is *)
(* JSON.stringify; onEscapedChanged, onRawChanged and onFocus are the four *)
(* handlers.                                                               *)

\* The step just taken processed this event.
EscapedChanged == lastEvent'.type = "change" /\ lastEvent'.target = "json-input"
RawChanged == lastEvent'.type = "change" /\ lastEvent'.target = "markdown-output"
EscapedFocused == lastEvent'.type = "focus" /\ lastEvent'.target = "json-input"
RawFocused == lastEvent'.type = "focus" /\ lastEvent'.target = "markdown-output"

\* The last event processed was this one.
WasEscapedChanged == lastEvent.type = "change" /\ lastEvent.target = "json-input"
WasRawChanged == lastEvent.type = "change" /\ lastEvent.target = "markdown-output"
WasEscapedFocused == lastEvent.type = "focus" /\ lastEvent.target = "json-input"
WasRawFocused == lastEvent.type = "focus" /\ lastEvent.target = "markdown-output"

IsBlank(t) == \A i \in 1..Len(t) : IsWhiteSpace(t[i])
IsStringLiteral(t) == JSONparse(t).type = "string"
Decoded(t) == JSONparse(t).value

\* What the Left -> Right effect derives from the escaped text of the state
\* reached: the raw text (the old one when the escaped text does not
\* decode), and whether the error is set.
RawDerived ==
    rightText' = IF IsBlank(leftText') THEN <<>>
                 ELSE IF IsStringLiteral(leftText') THEN Decoded(leftText')
                 ELSE rightText

ErrorDerived ==
    (error' # NULL) <=> (~IsBlank(leftText') /\ ~IsStringLiteral(leftText'))

-----------------------------------------------------------------------------
\* C1 (stale on error): with direction LeftToRight, a change of the escaped
\* text to a text that is not blank and is not a JSON string literal
\* (malformed, or a JSON value that is not a string) leaves raw as it was
\* and leaves error non-null.
C1_StaleOnError ==
    [][(EscapedChanged /\ direction = LEFT_TO_RIGHT
          /\ ~IsBlank(lastEvent'.value) /\ ~IsStringLiteral(lastEvent'.value))
       => (rightText' = rightText /\ error' # NULL)]_vars

\* A number was typed over a good state: the raw text is still there and
\* the error is now set.
C1_Witness ==
    /\ WasEscapedChanged /\ direction = LEFT_TO_RIGHT
    /\ prev.direction = LEFT_TO_RIGHT /\ prev.error = NULL
    /\ JSONparse(lastEvent.value).type = "number"
    /\ leftText = lastEvent.value
    /\ rightText # <<>> /\ error # NULL

\* C2 as stated (onFocus only sets direction): a focus event leaves escaped,
\* raw and error exactly as they were.
C2_FocusOnlySetsDirection ==
    [][(EscapedFocused \/ RawFocused)
       => (leftText' = leftText /\ rightText' = rightText /\ error' = error)]_vars

\* C2 amended: a focus sets direction, and a focus that changes direction
\* re-derives the dependent buffer at once.  Focus on the raw side from
\* LeftToRight sets escaped = encode(raw) and error = null and leaves raw;
\* focus on the escaped side from RightToLeft leaves escaped and derives raw
\* and error from it (blank: raw empty, no error; string literal: raw is the
\* decoded string, no error; otherwise raw kept, error set).  A focus on the
\* side that is already authoritative changes nothing.
C2_FocusRederives ==
    [][/\ RawFocused =>
            /\ direction' = RIGHT_TO_LEFT
            /\ rightText' = rightText
            /\ direction = RIGHT_TO_LEFT => (leftText' = leftText /\ error' = error)
            /\ direction = LEFT_TO_RIGHT =>
                  (leftText' = JSONstringify(rightText) /\ error' = NULL)
       /\ EscapedFocused =>
            /\ direction' = LEFT_TO_RIGHT
            /\ leftText' = leftText
            /\ direction = LEFT_TO_RIGHT => (rightText' = rightText /\ error' = error)
            /\ direction = RIGHT_TO_LEFT => (RawDerived /\ ErrorDerived)
      ]_vars

\* Focus moved to the raw side while an error was shown: the error is gone
\* and the escaped text has been rewritten from a raw text that needs
\* escaping.
C2_Witness ==
    /\ WasRawFocused /\ prev.direction = LEFT_TO_RIGHT /\ prev.error # NULL
    /\ direction = RIGHT_TO_LEFT /\ error = NULL
    /\ \E i \in 1..Len(rightText) : rightText[i] \in {QUOTE, BACKSLASH, NEWLINE}
    /\ leftText = JSONstringify(rightText)

\* C3 (direction isolation): with direction RightToLeft, a change of the
\* escaped text to t sets escaped = t and leaves raw, error and direction.
C3_InertEscapedEdit ==
    [][(EscapedChanged /\ direction = RIGHT_TO_LEFT)
       => /\ leftText' = lastEvent'.value
          /\ rightText' = rightText
          /\ error' = error
          /\ direction' = direction]_vars

\* An escaped text that would decode to something else was typed while the
\* raw side was authoritative.
C3_Witness ==
    /\ WasEscapedChanged /\ prev.direction = RIGHT_TO_LEFT
    /\ direction = RIGHT_TO_LEFT
    /\ leftText = lastEvent.value
    /\ IsStringLiteral(leftText) /\ Decoded(leftText) # rightText
    /\ rightText # <<>>

\* C4 as stated: in every state with direction RightToLeft, escaped is
\* exactly encode(raw).
C4_EscapedIsEncodedRaw ==
    (mounted /\ direction = RIGHT_TO_LEFT) => leftText = JSONstringify(rightText)

\* C4 amended: with direction RightToLeft, escaped = encode(raw) right after
\* every event that derives it (a change of the raw text, a focus on the raw
\* side that switches direction), and it stays so until the escaped text
\* itself is edited: that edit is stored as typed and nothing restores
\* escaped = encode(raw) before the next change of the raw text.
C4_EscapedIsEncodedRawUntilEdited ==
    [][/\ ((RawChanged /\ direction = RIGHT_TO_LEFT)
             \/ (RawFocused /\ direction = LEFT_TO_RIGHT))
          => (direction' = RIGHT_TO_LEFT /\ leftText' = JSONstringify(rightText'))
       /\ (direction = RIGHT_TO_LEFT /\ direction' = RIGHT_TO_LEFT
             /\ leftText = JSONstringify(rightText) /\ ~EscapedChanged)
          => leftText' = JSONstringify(rightText')
       /\ (direction = RIGHT_TO_LEFT /\ EscapedChanged)
          => (leftText' = lastEvent'.value /\ rightText' = rightText)
      ]_vars

\* A raw text that needs escaping was typed while the raw side was
\* authoritative, and the escaped side shows its literal.
C4_Witness ==
    /\ WasRawChanged /\ prev.direction = RIGHT_TO_LEFT
    /\ direction = RIGHT_TO_LEFT
    /\ rightText = lastEvent.value
    /\ rightText \in {<<QUOTE>>, <<BACKSLASH>>, <<NEWLINE>>}
    /\ leftText = JSONstringify(rightText)
    /\ Len(leftText) = 4

\* C5 as stated: in every state with direction LeftToRight, either
\* decode(escaped) succeeds and raw is the decoded string, or decode(escaped)
\* fails and error is non-null.
C5_RawIsDecodedEscaped ==
    (mounted /\ direction = LEFT_TO_RIGHT) =>
        \/ IsStringLiteral(leftText) /\ rightText = Decoded(leftText)
        \/ ~IsStringLiteral(leftText) /\ error # NULL

\* C5 amended: every step that ends with direction LeftToRight either
\* derives raw from escaped (blank escaped: raw is empty; escaped decodes:
\* raw is the decoded string; escaped does not decode: raw keeps its previous
\* value), or is a change of the raw text, which is stored as typed and not
\* re-derived, or leaves both buffers alone; and in every state with
\* direction LeftToRight error is non-null exactly when escaped is not blank
\* and does not decode.
C5_RawIsDerivedUntilEdited ==
    [][direction' = LEFT_TO_RIGHT =>
         /\ ErrorDerived
         /\ \/ RawDerived
            \/ RawChanged /\ rightText' = lastEvent'.value /\ leftText' = leftText
            \/ leftText' = leftText /\ rightText' = rightText
         /\ (EscapedChanged \/ (EscapedFocused /\ direction = RIGHT_TO_LEFT))
               => RawDerived
      ]_vars

\* Focus came back to the escaped side, whose text had been edited into
\* something that does not decode while the raw side was authoritative: the
\* error is set and raw keeps the text typed there.
C5_Witness ==
    /\ WasEscapedFocused /\ prev.direction = RIGHT_TO_LEFT /\ prev.error = NULL
    /\ direction = LEFT_TO_RIGHT
    /\ ~IsBlank(leftText) /\ ~IsStringLiteral(leftText)
    /\ rightText # <<>>
    /\ error # NULL

\* C6 (no error path in RightToLeft): in every state with direction
\* RightToLeft, error is null.
C6_NoErrorRightToLeft ==
    direction = RIGHT_TO_LEFT => error = NULL

\* RightToLeft was entered while an error of a failed decode was set.
C6_Witness ==
    /\ WasRawFocused /\ prev.direction = LEFT_TO_RIGHT /\ prev.error # NULL
    /\ direction = RIGHT_TO_LEFT /\ error = NULL

\* C7 (direction changes only through focus): the change events and the
\* effects they trigger leave direction; a focus on the escaped side sets
\* LeftToRight and a focus on the raw side sets RightToLeft.
C7_DirectionOnlyByFocus ==
    [][/\ (EscapedChanged \/ RawChanged) => direction' = direction
       /\ EscapedFocused => direction' = LEFT_TO_RIGHT
       /\ RawFocused => direction' = RIGHT_TO_LEFT
       /\ direction' # direction => (EscapedFocused \/ RawFocused)]_vars

\* Focus came back to the escaped side from RightToLeft.
C7_Witness ==
    /\ WasEscapedFocused /\ prev.direction = RIGHT_TO_LEFT
    /\ direction = LEFT_TO_RIGHT

\* C8 (empty input): with direction LeftToRight, a change of the escaped
\* text to an empty or whitespace-only text sets raw to the empty string and
\* error to null.
C8_EmptyInput ==
    [][(EscapedChanged /\ direction = LEFT_TO_RIGHT /\ IsBlank(lastEvent'.value))
       => (rightText' = <<>> /\ error' = NULL)]_vars

\* A whitespace-only text was typed while an error was shown.
C8_Witness ==
    /\ WasEscapedChanged /\ prev.direction = LEFT_TO_RIGHT /\ prev.error # NULL
    /\ lastEvent.value # <<>> /\ IsBlank(lastEvent.value)
    /\ leftText = lastEvent.value
    /\ rightText = <<>> /\ error = NULL

\* C9: with direction RightToLeft, after a change of the raw text to t,
\* raw = t, escaped = encode(t) and error is null.
C9_RawEditEncodes ==
    [][(RawChanged /\ direction = RIGHT_TO_LEFT)
       => /\ rightText' = lastEvent'.value
          /\ leftText' = JSONstringify(lastEvent'.value)
          /\ error' = NULL]_vars

\* A backslash was typed into the raw side; the escaped side holds the
\* four characters of its literal.
C9_Witness ==
    /\ WasRawChanged /\ prev.direction = RIGHT_TO_LEFT
    /\ lastEvent.value = <<BACKSLASH>>
    /\ rightText = <<BACKSLASH>>
    /\ leftText = <<QUOTE, BACKSLASH, BACKSLASH, QUOTE>>
    /\ error = NULL

\* C10 (recovery): with direction LeftToRight, whatever raw and error were,
\* a change of the escaped text to a JSON string literal sets raw to its
\* decoded string and error to null.
C10_RecoveryOnDecode ==
    [][(EscapedChanged /\ direction = LEFT_TO_RIGHT
          /\ IsStringLiteral(lastEvent'.value))
       => (rightText' = Decoded(lastEvent'.value) /\ error' = NULL)]_vars

\* The literal of a newline was typed while an error was shown.
C10_Witness ==
    /\ WasEscapedChanged /\ prev.direction = LEFT_TO_RIGHT /\ prev.error # NULL
    /\ lastEvent.value = <<QUOTE, BACKSLASH, LETTER_N, QUOTE>>
    /\ leftText = lastEvent.value
    /\ rightText = <<NEWLINE>> /\ error = NULL

\* C11 (one message for both failure kinds): with direction LeftToRight, a
\* change of the escaped text to malformed JSON and a change to a JSON value
\* that is not a string both leave raw as it was and set error to the same
\* non-null value, the message of the catch block.
C11_OneMessage ==
    [][(EscapedChanged /\ direction = LEFT_TO_RIGHT /\ ~IsBlank(lastEvent'.value))
       => /\ JSONparse(lastEvent'.value).type = "SyntaxError"
               => (error' = INVALID_JSON_MESSAGE /\ rightText' = rightText)
          /\ JSONparse(lastEvent'.value).type = "number"
               => (error' = INVALID_JSON_MESSAGE /\ rightText' = rightText)
          /\ ~IsStringLiteral(lastEvent'.value) => error' # NULL]_vars

\* A number was typed right after a text that failed: the message shown is
\* the same one.
C11_Witness ==
    /\ WasEscapedChanged /\ prev.direction = LEFT_TO_RIGHT
    /\ prev.error = INVALID_JSON_MESSAGE
    /\ JSONparse(lastEvent.value).type = "number"
    /\ TryParse(lastEvent.value).message = NOT_A_STRING_MESSAGE
    /\ direction = LEFT_TO_RIGHT
    /\ error = INVALID_JSON_MESSAGE
    /\ rightText # <<>>

\* C12 (inert raw edit): with direction LeftToRight, a change of the raw text
\* to t sets raw = t and nothing else: escaped, error and direction are as
\* before and raw is not re-derived from escaped.
C12_InertRawEdit ==
    [][(RawChanged /\ direction = LEFT_TO_RIGHT)
       => /\ rightText' = lastEvent'.value
          /\ leftText' = leftText
          /\ error' = error
          /\ direction' = direction]_vars

\* A raw text was typed over the decoded one while the escaped side was
\* authoritative; escaped still decodes to something else.
C12_Witness ==
    /\ WasRawChanged /\ prev.direction = LEFT_TO_RIGHT
    /\ direction = LEFT_TO_RIGHT
    /\ rightText = lastEvent.value
    /\ IsStringLiteral(leftText) /\ Decoded(leftText) # rightText
    /\ error = NULL

C14_RoundTrip ==
    /\ lastEvent.type = "stringify" =>
          /\ Len(leftText) >= 2
          /\ leftText[1] = QUOTE
          /\ leftText[Len(leftText)] = QUOTE
    /\ lastEvent.type = "parse" =>
          /\ error = NULL
          /\ rightText = lastEvent.value

\* A quote, a backslash and a newline went through the codec and came back.
C14_Witness ==
    /\ lastEvent.type = "parse"
    /\ lastEvent.value = <<QUOTE, BACKSLASH, NEWLINE>>
    /\ leftText = <<QUOTE, BACKSLASH, QUOTE, BACKSLASH, BACKSLASH,
                    BACKSLASH, LETTER_N, QUOTE>>
    /\ rightText = <<QUOTE, BACKSLASH, NEWLINE>>
    /\ error = NULL

\* C16 (the authoritative buffer is never rewritten): an event that ends
\* with direction LeftToRight and is not a change of the escaped text leaves
\* escaped as it was; an event that ends with direction RightToLeft and is
\* not a change of the raw text leaves raw as it was; and after a change of
\* the escaped text to t, escaped is t, valid or not.
C16_AuthoritativeBufferKept ==
    [][/\ (direction' = LEFT_TO_RIGHT /\ ~EscapedChanged) => leftText' = leftText
       /\ (direction' = RIGHT_TO_LEFT /\ ~RawChanged) => rightText' = rightText
       /\ EscapedChanged => leftText' = lastEvent'.value]_vars

\* The raw side was edited while the escaped side was authoritative and held
\* a text that does not decode: that text is still there, with its error.
C16_Witness ==
    /\ WasRawChanged /\ prev.direction = LEFT_TO_RIGHT
    /\ direction = LEFT_TO_RIGHT
    /\ ~IsBlank(leftText) /\ ~IsStringLiteral(leftText)
    /\ rightText = lastEvent.value
    /\ error # NULL

\* C17 (the error slot reflects the escaped buffer): in every state reached
\* by at least one event, error is non-null exactly when direction is
\* LeftToRight and escaped is not blank and is not a JSON string literal.
C17_ErrorReflectsEscaped ==
    lastEvent.type \in {"change", "focus"} =>
        ((error # NULL) <=>
            /\ direction = LEFT_TO_RIGHT
            /\ ~IsBlank(leftText)
            /\ ~IsStringLiteral(leftText))

\* The escaped text lost its closing quote while the escaped side was
\* authoritative: the error is set.
C17_Witness ==
    /\ WasEscapedChanged /\ direction = LEFT_TO_RIGHT
    /\ leftText = <<QUOTE, LETTER_N>>
    /\ JSONparse(leftText).type = "SyntaxError"
    /\ error # NULL

\* C18 as stated (focus round trip): in every reachable state, a focus on
\* the raw side leaves raw, and a focus on the escaped side that directly
\* follows it ends with direction LeftToRight, error null, raw as it was
\* and escaped = encode(raw).
C18_FocusRoundTrip ==
    [][/\ RawFocused => rightText' = rightText
       /\ (WasRawFocused /\ EscapedFocused) =>
            /\ direction' = LEFT_TO_RIGHT
            /\ error' = NULL
            /\ rightText' = rightText
            /\ leftText' = JSONstringify(rightText')]_vars

\* C18 amended: the same, from every reachable state in which direction is
\* LeftToRight or escaped = encode(raw).  (From a RightToLeft state whose
\* escaped text was edited, the first focus changes nothing and the second
\* derives raw and error from the edited text.)
C18_FocusRoundTripFromSynced ==
    [][/\ RawFocused =>
            /\ rightText' = rightText
            /\ direction' = RIGHT_TO_LEFT
            /\ (direction = LEFT_TO_RIGHT \/ leftText = JSONstringify(rightText))
                  => leftText' = JSONstringify(rightText')
       /\ (/\ WasRawFocused /\ EscapedFocused
           /\ (prev.direction = LEFT_TO_RIGHT \/ leftText = JSONstringify(rightText)))
          => /\ direction' = LEFT_TO_RIGHT
             /\ error' = NULL
             /\ rightText' = rightText
             /\ leftText' = JSONstringify(rightText')]_vars

\* Focus came back to the escaped side, which holds the literal of a raw
\* text typed on the raw side; raw is that text and no error is shown.
C18_Witness ==
    /\ WasEscapedFocused /\ prev.direction = RIGHT_TO_LEFT
    /\ direction = LEFT_TO_RIGHT
    /\ rightText \in {<<QUOTE>>, <<BACKSLASH>>, <<NEWLINE>>}
    /\ leftText = JSONstringify(rightText)
    /\ error = NULL

\* The state an event handler asks for with its set-state call, for the
\* step just taken.
Handled ==
    IF EscapedChanged THEN [state EXCEPT !.leftText = lastEvent'.value]
    ELSE IF RawChanged THEN [state EXCEPT !.rightText = lastEvent'.value]
    ELSE IF EscapedFocused THEN [state EXCEPT !.direction = LEFT_TO_RIGHT]
    ELSE IF RawFocused THEN [state EXCEPT !.direction = RIGHT_TO_LEFT]
    ELSE state

\* The renders of a step whose handler set state h: the state before the
\* event, h, then the state after each effect pass that changed something.
Renders(h) ==
    IF h = state THEN <<state>> ELSE <<state, h>> \o RenderLog(state, h)

\* C15 (no update loop, no double propagation): every event is followed by
\* at most two effect passes, of which only the first can change state; the
\* state reached is the last render, and one more pass over it changes
\* nothing; and the effects write at most one of the two buffers.
C15_NoLoopNoDoublePropagation ==
    [][lastEvent'.type \in {"change", "focus"} =>
        \A handled \in {Handled} :
        \A renders \in {Renders(handled)} :
        \A n \in {Len(renders)} :
        \A escapedDerived \in
            {\E i \in 2..(n - 1) : renders[i + 1].leftText # renders[i].leftText} :
        \A rawDerived \in
            {\E i \in 2..(n - 1) : renders[i + 1].rightText # renders[i].rightText} :
           /\ n <= 3
           /\ leftText' = renders[n].leftText
           /\ rightText' = renders[n].rightText
           /\ direction' = renders[n].direction
           /\ error' = renders[n].error
           /\ n >= 2 => EffectPass(renders[n - 1], renders[n]) = renders[n]
           /\ ~(escapedDerived /\ rawDerived)
           /\ escapedDerived => direction' = RIGHT_TO_LEFT
           /\ rawDerived => direction' = LEFT_TO_RIGHT
      ]_vars

\* A letter was typed into the raw side while it was authoritative: the
\* Right -> Left effect wrote escaped, which is a dependency of the Left ->
\* Right effect, and the state is at rest with raw as typed.
C15_Witness ==
    /\ WasRawChanged /\ prev.direction = RIGHT_TO_LEFT
    /\ direction = RIGHT_TO_LEFT
    /\ rightText = <<LETTER_N>> /\ lastEvent.value = rightText
    /\ leftText = <<QUOTE, LETTER_N, QUOTE>>
    /\ EffectPass([state EXCEPT !.leftText = <<>>], state) = state

====
